---------------------------- MODULE Spec2Model ----------------------------
(***************************************************************************)
(* The frame codec of extras/creality_cfs.py: force_to_bytes, the CRC8     *)
(* of CRC8Structure, and the two frozen dataclasses DataPackage and        *)
(* MessageBlock with their loads / message_block / __post_init__.          *)
(*                                                                         *)
(* Python values are modelled as follows.                                  *)
(*   bytes, list of int   a sequence of integers                           *)
(*   a frame object       a record with the dataclass's fields and a tag   *)
(*   a raised exception   a record [tag |-> "exc", type |-> ..., ...]      *)
(*   None                 [tag |-> "None"]                                 *)
(***************************************************************************)
EXTENDS Integers, Sequences, FiniteSets, TLC

(***************************************************************************)
(* Bounds of the model.                                                    *)
(***************************************************************************)
\* longest buffer drawn over the alphabet ByteVals
MaxBufLen == 7
\* longest input of the CRC specification drawn over ByteVals
MaxCrcLen == 3
\* number of concurrent callers of the interleaving specification
NumCallers == 2
MaxListLen == 2
MaxZeros == 2

\* all values of one byte
Byte == 0 .. 255

\* the alphabet of the enumerated buffers: 0x00 (status OK, no Command),
\* 0x03 (STATE_ERR, GET_REMAIN_LEN, the length of a frame without data),
\* 0xA3 (CMD_GET_ADDR_TABLE, no ResponseState)
ByteVals == {0, 3, 163}

(***************************************************************************)
(* Integer arithmetic of Python on the widths the code uses.               *)
(***************************************************************************)
RECURSIVE BitXor(_, _)
\* a ^ b on non-negative integers
BitXor(a, b) ==
    IF a = 0 THEN b
    ELSE IF b = 0 THEN a
    ELSE (((a % 2) + (b % 2)) % 2) + 2 * BitXor(a \div 2, b \div 2)

RECURSIVE BitAnd(_, _)
\* a & b on non-negative integers
BitAnd(a, b) ==
    IF a = 0 \/ b = 0 THEN 0
    ELSE ((a % 2) * (b % 2)) + 2 * BitAnd(a \div 2, b \div 2)

\* b''.join(parts) for a sequence of byte sequences
RECURSIVE Join(_)
Join(parts) ==
    IF parts = << >> THEN << >> ELSE Head(parts) \o Join(Tail(parts))

\* s[2:-1]: the elements of s from index 2 up to, excluding, the last
Slice2m1(s) == SubSeq(s, 3, Len(s) - 1)

(***************************************************************************)
(* Exceptions and None.                                                    *)
(***************************************************************************)
NoneVal == [tag |-> "None"]

\* ValueError raised by a starred unpacking of too few values
UnpackError(need, got) ==
    [tag |-> "exc", type |-> "ValueError", msg |-> "not enough values to unpack",
     need |-> need, got |-> got]

\* ValueError(f"Invalid CRC8 checksum. {crc} != {_crc}")
CrcError(computed, expected) ==
    [tag |-> "exc", type |-> "ValueError", msg |-> "Invalid CRC8 checksum",
     computed |-> computed, expected |-> expected]

\* OverflowError of int.to_bytes(1, 'big') for an int above 255
OverflowError == [tag |-> "exc", type |-> "OverflowError", msg |-> "int too big to convert"]

\* OverflowError of int.to_bytes(1, 'big') for a negative int
NegativeOverflowError ==
    [tag |-> "exc", type |-> "OverflowError",
     msg |-> "can't convert negative int to unsigned"]

\* ValueError(f"Unknown type: {type(value)}") of the generic force_to_bytes
UnknownTypeError(type) ==
    [tag |-> "exc", type |-> "ValueError", msg |-> "Unknown type", of |-> type]

\* dataclasses.FrozenInstanceError of an assignment to a frozen dataclass
FrozenInstanceError(name) ==
    [tag |-> "exc", type |-> "FrozenInstanceError", msg |-> "cannot assign to field",
     field |-> name]

IsExc(v) == v.tag = "exc"

(***************************************************************************)
(* force_to_bytes.                                                         *)
(***************************************************************************)
\* a bytes value, as a function returns it
BytesVal(s) == [tag |-> "bytes", val |-> s]

\* the exception of the first part that raised, as the generator of a join
\* stops at it; the joined bytes when none did
JoinParts(parts) ==
    IF \E i \in 1 .. Len(parts) : IsExc(parts[i])
    THEN parts[CHOOSE i \in 1 .. Len(parts) :
                   IsExc(parts[i]) /\ \A j \in 1 .. (i - 1) : ~IsExc(parts[j])]
    ELSE BytesVal(Join([i \in 1 .. Len(parts) |-> parts[i].val]))

\* the int overload: value.to_bytes(1, 'big')
force_to_bytes_int(value) ==
    IF value \in Byte THEN BytesVal(<< value >>)
    ELSE IF value < 0 THEN NegativeOverflowError
    ELSE OverflowError

\* the list overload on a list of ints: b''.join(map(force_to_bytes, value))
force_to_bytes_list(value) ==
    JoinParts([i \in 1 .. Len(value) |-> force_to_bytes_int(value[i])])

\* str.encode() of one code point below 0x800: UTF-8
Utf8(cp) ==
    IF cp < 128 THEN << cp >>
    ELSE << 192 + (cp \div 64), 128 + (cp % 64) >>

\* the str overload: value.encode(), value a sequence of code points
force_to_bytes_str(value) ==
    BytesVal(Join([i \in 1 .. Len(value) |-> Utf8(value[i])]))

\* force_to_bytes of a Python value v, given with its type as v.tag: the
\* overload singledispatch selects (bool is a subclass of int), the generic
\* function for a type with no overload
RECURSIVE force_to_bytes(_)
force_to_bytes(v) ==
    CASE v.tag = "int" -> force_to_bytes_int(v.val)
      [] v.tag = "bool" -> force_to_bytes_int(IF v.truth THEN 1 ELSE 0)
      [] v.tag = "bytes" -> BytesVal(v.val)
      [] v.tag = "str" -> force_to_bytes_str(v.points)
      [] v.tag = "list" ->
            JoinParts([i \in 1 .. Len(v.items) |-> force_to_bytes(v.items[i])])
      [] OTHER -> UnknownTypeError(v.tag)

(***************************************************************************)
(* CRC8Structure.                                                          *)
(***************************************************************************)
\* the polynomial of line 181
CrcPoly == 7
\* the tested bit of line 181
CrcTopBit == 128

\* the round testing the top bit after the shift instead of before it
Crc8Round_test_after(crc) ==
    LET sh == (crc * 2) % 256
    IN  IF BitAnd(sh, CrcTopBit) # 0 THEN BitXor(sh, CrcPoly) ELSE sh

\* crc = ((crc << 1) ^ 0x07 if crc & 0x80 else crc << 1) & 0xFF
Crc8Round(crc) ==
    IF BitAnd(crc, CrcTopBit) # 0
    THEN BitXor(crc * 2, CrcPoly) % 256
    ELSE (crc * 2) % 256

\* for _ in range(8): n rounds on the accumulator crc
Crc8Rounds[n \in 0 .. 8, crc \in Byte] ==
    IF n = 0 THEN crc ELSE Crc8Rounds[n - 1, Crc8Round(crc)]

\* the 8 rounds of the inner loop, for each value the accumulator can have
Crc8Inner == [x \in Byte |-> Crc8Rounds[8, x]]

\* the body of the outer loop: crc ^= byte, then the 8 rounds
Crc8Byte(crc, byte) == Crc8Inner[BitXor(crc, byte)]

\* _calc_crc8 with the accumulator starting at 0xFF
_calc_crc8_init_ff(data) ==
    LET crc[i \in 0 .. Len(data)] ==
            IF i = 0 THEN 255 ELSE Crc8Byte(crc[i - 1], data[i])
    IN  crc[Len(data)]

\* CRC8Structure._calc_crc8: crc = 0, the outer loop over _data, return crc
_calc_crc8(data) ==
    LET crc[i \in 0 .. Len(data)] ==
            IF i = 0 THEN 0 ELSE Crc8Byte(crc[i - 1], data[i])
    IN  crc[Len(data)]

\* check_crc8 with the two values of its message exchanged
check_crc8_swapped(data, crc) ==
    LET c == _calc_crc8(data)
    IN  IF c # crc THEN CrcError(crc, c) ELSE NoneVal

\* CRC8Structure.check_crc8: None, or the ValueError it raises
check_crc8(data, crc) ==
    LET c == _calc_crc8(data)
    IN  IF c # crc THEN CrcError(c, crc) ELSE NoneVal

(***************************************************************************)
(* The vocabularies: the values of the members of Command and              *)
(* ResponseState.                                                          *)
(***************************************************************************)
Command ==
    {1, 2, 3, 4, 5, 6, 7, 8, 9, 10, 13, 14, 15, 16, 17, 19, 20, 21, 85,
     161, 160, 162, 163, 11}

ResponseState ==
    {0, 1, 2, 3, 4, 5, 8, 9, 10, 11, 12, 14, 13, 18, 19, 20, 21, 22, 25, 26,
     34, 48, 80, 81, 82}

\* the name of the member of Command with value v
CommandName(v) ==
    CASE v = 1 -> "CREATE_CONNECT"
      [] v = 2 -> "GET_RFID"
      [] v = 3 -> "GET_REMAIN_LEN"
      [] v = 4 -> "SET_BOX_MODE"
      [] v = 5 -> "GET_BUFFER_STATE"
      [] v = 6 -> "CTRL_MATERIAL_MOTOR_ACTION"
      [] v = 7 -> "CTRL_CONNECTION_MOTOR_ACTION"
      [] v = 8 -> "GET_FILAMENT_SENSOR_STATE"
      [] v = 9 -> "SET_MOTOR_SPEED"
      [] v = 10 -> "GET_BOX_STATE"
      [] v = 13 -> "SET_PRE_LOADING"
      [] v = 14 -> "MEASURING_WHEEL"
      [] v = 15 -> "TIGHTEN_UP_ENABLE"
      [] v = 16 -> "EXTRUDE_PROCESS"
      [] v = 17 -> "RETRUDE_PROCESS"
      [] v = 19 -> "EXTRUDE_PROCESS_MODEL2"
      [] v = 20 -> "GET_VERSION_SN"
      [] v = 21 -> "GET_HARDWARE_STATUS"
      [] v = 85 -> "COMMUNICATION_TEST"
      [] v = 161 -> "CMD_GET_SLAVE_INFO"
      [] v = 160 -> "CMD_SET_SLAVE_ADDR"
      [] v = 162 -> "CMD_ONLINE_CHECK"
      [] v = 163 -> "CMD_GET_ADDR_TABLE"
      [] v = 11 -> "CMD_LOADER_TO_APP"

\* the name of the member of ResponseState with value v
ResponseStateName(v) ==
    CASE v = 0 -> "OK"
      [] v = 1 -> "PARAMS_ERR"
      [] v = 2 -> "CRC_ERR"
      [] v = 3 -> "STATE_ERR"
      [] v = 4 -> "LENGTH_ERR"
      [] v = 5 -> "EXTRUDE_ERR1"
      [] v = 8 -> "EXTRUDE_ERR4"
      [] v = 9 -> "EXTRUDE_ERR5"
      [] v = 10 -> "EXTRUDE_ERR6"
      [] v = 11 -> "EXTRUDE_ERR7"
      [] v = 12 -> "EXTRUDE_ERR8"
      [] v = 14 -> "EXTRUDE_ERR9"
      [] v = 13 -> "EXTRUDE_ERR10"
      [] v = 18 -> "RETRUDE_ERR1"
      [] v = 19 -> "RETRUDE_ERR2"
      [] v = 20 -> "RETRUDE_ERR3"
      [] v = 21 -> "RETRUDE_ERR4"
      [] v = 22 -> "RETRUDE_ERR5"
      [] v = 25 -> "RETRUDE_ERR6"
      [] v = 26 -> "RETRUDE_ERR7"
      [] v = 34 -> "MOTOR_LOAD_ERR"
      [] v = 48 -> "UPDATE_STATE"
      [] v = 80 -> "FILAMENT_ERR"
      [] v = 81 -> "SPEED_ERR"
      [] v = 82 -> "ENWIND_ERR"

(***************************************************************************)
(* DataPackage.                                                            *)
(***************************************************************************)
\* the object the dataclass __init__ builds from its seven fields
DataPackageObj(head, slave_addr, length, status, function_code, data, crc) ==
    [tag |-> "DataPackage", head |-> head, slave_addr |-> slave_addr,
     length |-> length, status |-> status, function_code |-> function_code,
     data |-> data, crc |-> crc]

\* message_block writing the marker 0xF7 in place of the field head
DataPackage_message_block_marker(self) ==
    JoinParts(<< force_to_bytes_int(247),
                 force_to_bytes_int(self.slave_addr),
                 force_to_bytes_int(self.length),
                 force_to_bytes_int(self.status),
                 force_to_bytes_int(self.function_code),
                 force_to_bytes_list(self.data),
                 force_to_bytes_int(self.crc) >>)

\* DataPackage.message_block: the fields in declaration order, each through
\* force_to_bytes; the OverflowError of a field that is no byte propagates
DataPackage_message_block(self) ==
    LET parts == << force_to_bytes_int(self.head),
                    force_to_bytes_int(self.slave_addr),
                    force_to_bytes_int(self.length),
                    force_to_bytes_int(self.status),
                    force_to_bytes_int(self.function_code),
                    force_to_bytes_list(self.data),
                    force_to_bytes_int(self.crc) >>
    IN  JoinParts(parts)

\* the slice [1:-1], which takes slave_addr into the checksum
DataPackage_crc_domain_from1(block) == SubSeq(block, 2, Len(block) - 1)

\* the checksum domain of DataPackage.__post_init__: self.message_block[2:-1]
DataPackage_crc_domain(block) == Slice2m1(block)

\* DataPackage.__post_init__: None, or the exception it raises
DataPackage_post_init(self) ==
    LET block == DataPackage_message_block(self)
    IN  IF IsExc(block) THEN block
        ELSE check_crc8(DataPackage_crc_domain(block.val), self.crc)

\* DataPackage(...): the new object, or the exception of __post_init__
DataPackage(head, slave_addr, length, status, function_code, data, crc) ==
    LET self == DataPackageObj(head, slave_addr, length, status,
                               function_code, data, crc)
        e == DataPackage_post_init(self)
    IN  IF IsExc(e) THEN e ELSE self

\* IndexError of a subscript beyond the end
IndexError == [tag |-> "exc", type |-> "IndexError", msg |-> "index out of range"]

\* ValueError of Command(value) or ResponseState(value) for a non-member
EnumError(value) ==
    [tag |-> "exc", type |-> "ValueError", msg |-> "is not a valid member",
     value |-> value]

\* loads reading its fields by subscript instead of unpacking
DataPackage_loads_subscript(value) ==
    IF Len(value) < 5
    THEN IndexError
    ELSE DataPackage(value[1], value[2], value[3], value[4], value[5],
                     SubSeq(value, 6, Len(value) - 1), value[Len(value)])

\* loads converting function_code and status to their enumerations
DataPackage_loads_enum(value) ==
    IF Len(value) < 6
    THEN UnpackError(6, Len(value))
    ELSE IF value[5] \notin Command THEN EnumError(value[5])
    ELSE IF value[4] \notin ResponseState THEN EnumError(value[4])
    ELSE DataPackage(value[1], value[2], value[3], value[4], value[5],
                     SubSeq(value, 6, Len(value) - 1), value[Len(value)])

\* DataPackage.loads: the starred unpacking needs six values; data is the
\* list of what lies between function_code and the last value
DataPackage_loads(value) ==
    IF Len(value) < 6
    THEN UnpackError(6, Len(value))
    ELSE DataPackage(value[1], value[2], value[3], value[4], value[5],
                     SubSeq(value, 6, Len(value) - 1), value[Len(value)])

\* what an f-string writes for a field: the text of a name, or a number in
\* decimal
NameText(s) == [as |-> "name", text |-> s]
NumberText(n) == [as |-> "number", val |-> n]

\* format() of a member of an IntEnum in an f-string: int.__format__, the
\* value in decimal
FormatIntEnum(v) == NumberText(v)

\* bytes.hex(): two lower-case digits for each byte, in order
HexDigits ==
    << "0", "1", "2", "3", "4", "5", "6", "7", "8", "9",
       "a", "b", "c", "d", "e", "f" >>
Hex(bytes) ==
    Join([i \in 1 .. Len(bytes) |->
            << HexDigits[(bytes[i] \div 16) + 1], HexDigits[(bytes[i] % 16) + 1] >>])

\* DataPackage.__repr__: the four things the f-string writes, or the
\* exception of force_to_bytes on data
DataPackage_repr(self) ==
    LET fn == IF self.function_code \in Command
              THEN NameText(CommandName(self.function_code))
              ELSE NumberText(self.function_code)
        status == IF self.status \in ResponseState
                  THEN FormatIntEnum(self.status)
                  ELSE NumberText(self.status)
        msg == force_to_bytes_list(self.data)
    IN  IF IsExc(msg) THEN msg
        ELSE [tag |-> "str", slave_addr |-> NumberText(self.slave_addr),
              fn |-> fn, st |-> status, msg |-> Hex(msg.val)]

(***************************************************************************)
(* MessageBlock.                                                           *)
(***************************************************************************)
MessageBlockObj(head, length, payload, crc) ==
    [tag |-> "MessageBlock", head |-> head, length |-> length,
     payload |-> payload, crc |-> crc]

\* MessageBlock.message_block
MessageBlock_message_block(self) ==
    LET parts == << force_to_bytes_int(self.head),
                    force_to_bytes_int(self.length),
                    force_to_bytes_list(self.payload),
                    force_to_bytes_int(self.crc) >>
    IN  JoinParts(parts)

\* the slice [1:-1], which takes length into the checksum as the comment
\* of __post_init__ says
MessageBlock_crc_domain_from1(block) == SubSeq(block, 2, Len(block) - 1)

\* the checksum domain of MessageBlock.__post_init__: self.message_block[2:-1]
MessageBlock_crc_domain(block) == Slice2m1(block)

\* MessageBlock.__post_init__
MessageBlock_post_init(self) ==
    LET block == MessageBlock_message_block(self)
    IN  IF IsExc(block) THEN block
        ELSE check_crc8(MessageBlock_crc_domain(block.val), self.crc)

\* MessageBlock(...)
MessageBlock(head, length, payload, crc) ==
    LET self == MessageBlockObj(head, length, payload, crc)
        e == MessageBlock_post_init(self)
    IN  IF IsExc(e) THEN e ELSE self

\* MessageBlock.loads: the starred unpacking needs three values
MessageBlock_loads(value) ==
    IF Len(value) < 3
    THEN UnpackError(3, Len(value))
    ELSE MessageBlock(value[1], value[2],
                      SubSeq(value, 3, Len(value) - 1), value[Len(value)])

\* message_block of either class
message_block(self) ==
    IF self.tag = "DataPackage"
    THEN DataPackage_message_block(self)
    ELSE MessageBlock_message_block(self)

(***************************************************************************)
(* The inputs.                                                             *)
(***************************************************************************)
\* the sequences over S of length at most n
SeqsUpTo(S, n) == UNION {[1 .. k -> S] : k \in 0 .. n}

\* p followed by the CRC8 of p[2:], the checksum both classes expect there
WithCrc(p) == Append(p, _calc_crc8(SubSeq(p, 3, Len(p))))

\* messages of tests/test_structures.py, and the first with its crc changed
TestVectors ==
    {<< 247, 1, 3, 0, 163, 221 >>,
     << 247, 1, 5, 255, 4, 0, 1, 144 >>,
     << 247, 254, 5, 0, 161, 254, 254, 248 >>,
     << 247, 1, 3, 0, 163, 222 >>}

\* the buffers a caller passes to loads
Buffers ==
    SeqsUpTo(ByteVals, MaxBufLen)
        \cup {WithCrc(p) : p \in {q \in SeqsUpTo(ByteVals, MaxBufLen - 1) : Len(q) >= 2}}
        \cup TestVectors

\* the values a byte of a buffer is replaced by
MutVals == ByteVals \cup {255}

\* the values appended to the list a frame holds
ListVals == {0, 1}

(***************************************************************************)
(* The state: one caller of the codec.                                     *)
(***************************************************************************)
VARIABLES
    buf,     \* the bytes the caller holds and passes to loads
    frame,   \* the frame the last construction returned, NoneVal if it raised
    exc,     \* the exception the last operation raised, NoneVal if none
    ret,     \* what the last property or function call returned
    op,      \* the last operation
    built,   \* message_block of frame when it was constructed
    base,    \* the buffer that buf was made from, by replacing a byte of it
             \* or by putting zero bytes into it
    mpos,    \* the position of that byte or of the first of these zero
             \* bytes, 0 when buf is as it was drawn
    arg,     \* the value the caller passes to force_to_bytes
    pc,      \* of each concurrent caller: "idle", "crc" (in the loop of
             \* _calc_crc8) or "done" (its call returned or raised)
    call,    \* the call each concurrent caller is in, with its input
    inst,    \* the object the constructor of that call is initialising
    _data,   \* the argument _data of the _calc_crc8 that call is running
    acc,     \* the accumulator crc of _calc_crc8, one cell for each call
    idx,     \* how many bytes of _data the loop of that call has consumed
    result,  \* what the call returned or raised
    overlap  \* whether another call was inside its loop at a step of this one

callerVars == << buf, frame, exc, ret, op, built, base, mpos, arg >>
concVars == << pc, call, inst, _data, acc, idx, result, overlap >>
vars == << callerVars, concVars >>

\* the concurrent callers
Callers == 1 .. NumCallers

\* no concurrent caller has called anything
ConcIdle ==
    /\ pc = [c \in Callers |-> "idle"]
    /\ call = [c \in Callers |-> NoneVal]
    /\ inst = [c \in Callers |-> NoneVal]
    /\ _data = [c \in Callers |-> << >>]
    /\ acc = [c \in Callers |-> 0]
    /\ idx = [c \in Callers |-> 0]
    /\ result = [c \in Callers |-> NoneVal]
    /\ overlap = [c \in Callers |-> FALSE]

IntVal(n) == [tag |-> "int", val |-> n]

\* the name of the list-valued field of a frame
ListField(self) == IF self.tag = "DataPackage" THEN "data" ELSE "payload"

\* the caller's variables after a constructor or loads returned or raised r
Constructed(r, name) ==
    /\ op' = name
    /\ frame' = IF IsExc(r) THEN NoneVal ELSE r
    /\ exc' = IF IsExc(r) THEN r ELSE NoneVal
    /\ built' = IF IsExc(r) THEN NoneVal ELSE message_block(r)
    /\ ret' = NoneVal

Init ==
    /\ buf \in Buffers
    /\ frame = NoneVal
    /\ exc = NoneVal
    /\ ret = NoneVal
    /\ op = "start"
    /\ built = NoneVal
    /\ base = << >>
    /\ mpos = 0
    /\ arg = NoneVal
    /\ ConcIdle

\* item = DataPackage.loads(buf)
LoadsDataPackage ==
    /\ Constructed(DataPackage_loads(buf), "DataPackage.loads")
    /\ UNCHANGED << buf, base, mpos >>
    /\ UNCHANGED << arg, concVars >>

\* item = MessageBlock.loads(buf)
LoadsMessageBlock ==
    /\ Constructed(MessageBlock_loads(buf), "MessageBlock.loads")
    /\ UNCHANGED << buf, base, mpos >>
    /\ UNCHANGED << arg, concVars >>

\* item = DataPackage(head, slave_addr, length, status, function_code, data, crc),
\* by a caller that holds no buffer
ConstructDataPackage ==
    \E sa \in {1, 254}, ln \in {3, 4}, fn \in {163, 256},
       d \in {<< >>, << 1 >>, << -1 >>} :
        \E c \in {0, _calc_crc8(<< ln, 0, fn % 256 >> \o [i \in 1 .. Len(d) |-> d[i] % 256])} :
            /\ buf = << >>
            /\ Constructed(DataPackage(247, sa, ln, 0, fn, d, c), "DataPackage")
            /\ UNCHANGED << buf, base, mpos >>
            /\ UNCHANGED << arg, concVars >>

\* item = MessageBlock(head, length, payload, crc)
ConstructMessageBlock ==
    \E ln \in {1, 2}, pl \in {<< >>, << 1 >>, << 256 >>} :
        \E c \in {0, _calc_crc8([i \in 1 .. Len(pl) |-> pl[i] % 256])} :
            /\ buf = << >>
            /\ Constructed(MessageBlock(247, ln, pl, c), "MessageBlock")
            /\ UNCHANGED << buf, base, mpos >>
            /\ UNCHANGED << arg, concVars >>

\* frame.message_block
GetMessageBlock ==
    /\ frame # NoneVal
    /\ LET r == message_block(frame)
       IN  /\ ret' = IF IsExc(r) THEN NoneVal ELSE r
           /\ exc' = IF IsExc(r) THEN r ELSE NoneVal
    /\ op' = "message_block"
    /\ UNCHANGED << buf, frame, built, base, mpos >>
    /\ UNCHANGED << arg, concVars >>

\* hash(frame): the hash of message_block
Hash ==
    /\ frame # NoneVal
    /\ LET r == message_block(frame)
       IN  /\ ret' = IF IsExc(r) THEN NoneVal ELSE [tag |-> "hash", of |-> r.val]
           /\ exc' = IF IsExc(r) THEN r ELSE NoneVal
    /\ op' = "hash"
    /\ UNCHANGED << buf, frame, built, base, mpos >>
    /\ UNCHANGED << arg, concVars >>

\* frame.<name> = v on a frozen dataclass
SetAttr ==
    \E name \in {"crc", "data", "payload"} :
        /\ frame # NoneVal
        /\ name \in DOMAIN frame
        /\ exc' = FrozenInstanceError(name)
        /\ ret' = NoneVal
        /\ op' = "setattr"
        /\ UNCHANGED << buf, frame, built, base, mpos >>
        /\ UNCHANGED << arg, concVars >>

\* frame.data.append(v), frame.payload.append(v): the field holds the list
\* object itself, which the caller reaches through the attribute. One append
\* to a frame that is still as constructed bounds the lists.
ListAppend ==
    \E v \in ListVals :
        /\ frame # NoneVal
        /\ message_block(frame) = built
        /\ frame' = [frame EXCEPT ![ListField(frame)] = Append(@, v)]
        /\ exc' = NoneVal
        /\ ret' = NoneVal
        /\ op' = "list.append"
        /\ UNCHANGED << buf, built, base, mpos >>
        /\ UNCHANGED << arg, concVars >>

\* CRC8Structure._calc_crc8(buf)
CalcCrc8 ==
    /\ ret' = IntVal(_calc_crc8(buf))
    /\ exc' = NoneVal
    /\ op' = "_calc_crc8"
    /\ UNCHANGED << buf, frame, built, base, mpos >>
    /\ UNCHANGED << arg, concVars >>

\* the caller's buffer with one byte replaced, after loads accepted it
Mutate ==
    \E i \in 1 .. Len(buf), v \in MutVals :
        /\ mpos = 0
    /\ ConcIdle
        /\ op \in {"DataPackage.loads", "MessageBlock.loads"}
        /\ frame # NoneVal
        /\ v # buf[i]
        /\ base' = buf
        /\ buf' = [buf EXCEPT ![i] = v]
        /\ mpos' = i
        /\ op' = "mutate"
        /\ frame' = NoneVal
        /\ exc' = NoneVal
        /\ ret' = NoneVal
        /\ built' = NoneVal
        /\ UNCHANGED << arg, concVars >>

\* one caller using the codec and the frames it returns
Next ==
    \/ LoadsDataPackage
    \/ LoadsMessageBlock
    \/ ConstructDataPackage
    \/ ConstructMessageBlock
    \/ GetMessageBlock
    \/ Hash
    \/ SetAttr
    \/ ListAppend
    \/ CalcCrc8

Spec == Init /\ [][Next]_vars

\* a caller that decodes a buffer, replaces one byte of an accepted buffer
\* and decodes again
NextMut ==
    \/ LoadsDataPackage
    \/ LoadsMessageBlock
    \/ Mutate

SpecMut == Init /\ [][NextMut]_vars
(***************************************************************************)
(* The specification of _calc_crc8 alone.                                  *)
(***************************************************************************)
\* the inputs of _calc_crc8: every sequence of at most two bytes, the
\* sequences over ByteVals up to MaxCrcLen, and the checksum domains of the
\* test messages
CrcInputs ==
    {<< >>}
        \cup {<< x >> : x \in Byte}
        \cup {<< x, y >> : x \in Byte, y \in Byte}
        \cup SeqsUpTo(ByteVals, MaxCrcLen)
        \cup {Slice2m1(v) : v \in TestVectors}

InitCrc ==
    /\ buf \in CrcInputs
    /\ frame = NoneVal
    /\ exc = NoneVal
    /\ ret = NoneVal
    /\ op = "start"
    /\ built = NoneVal
    /\ base = << >>
    /\ mpos = 0
    /\ arg = NoneVal
    /\ ConcIdle

NextCrc == CalcCrc8

SpecCrc == InitCrc /\ [][NextCrc]_vars

(***************************************************************************)
(* Concurrent callers. Every caller runs one call at a time; the calls of  *)
(* different callers interleave at the iterations of the loop of           *)
(* _calc_crc8, the only loop of the codec.                                 *)
(***************************************************************************)
\* the buffers the concurrent callers pass: an accepted message, the same
\* with its crc changed, and two that are too short
ConcBuffers ==
    {<< 247, 1, 3, 0, 163, 221 >>, << 247, 1, 3, 0, 163, 222 >>,
     << 247, 1, 3 >>, << 247 >>}

\* the calls with their inputs: fn(arg), and check_crc8(arg, crc)
Calls ==
    {[fn |-> f, arg |-> BytesVal(b), crc |-> 0] :
        f \in {"DataPackage.loads", "MessageBlock.loads"}, b \in ConcBuffers}
    \cup {[fn |-> "_calc_crc8", arg |-> BytesVal(d), crc |-> 0] :
            d \in {<< >>, << 3, 0, 163 >>}}
    \cup {[fn |-> "check_crc8", arg |-> BytesVal(<< 3, 0, 163 >>), crc |-> k] :
            k \in {221, 222}}
    \cup {[fn |-> "message_block", arg |-> f, crc |-> 0] :
            f \in {DataPackage_loads(<< 247, 1, 3, 0, 163, 221 >>),
                   MessageBlock_loads(<< 247, 1, 3, 0, 163, 221 >>)}}

\* the accumulator shared by all calls, as a class attribute would be
CrcCell_shared(c) == 1

\* the cell that holds the accumulator of the _calc_crc8 of caller c: crc is
\* a local variable of the function, one for each call
CrcCell(c) == c

\* what call k returns or raises before any _calc_crc8 runs: the property
\* message_block, the failed unpacking of loads; NoneVal when k reaches
\* _calc_crc8
Immediate(k) ==
    CASE k.fn = "message_block" -> message_block(k.arg)
      [] k.fn = "DataPackage.loads" /\ Len(k.arg.val) < 6 ->
            UnpackError(6, Len(k.arg.val))
      [] k.fn = "MessageBlock.loads" /\ Len(k.arg.val) < 3 ->
            UnpackError(3, Len(k.arg.val))
      [] OTHER -> NoneVal

\* the object loads hands to __post_init__; NoneVal for the static methods
Unpacked(k) ==
    LET value == k.arg.val
    IN  CASE k.fn = "DataPackage.loads" ->
                DataPackageObj(value[1], value[2], value[3], value[4], value[5],
                               SubSeq(value, 6, Len(value) - 1), value[Len(value)])
          [] k.fn = "MessageBlock.loads" ->
                MessageBlockObj(value[1], value[2],
                                SubSeq(value, 3, Len(value) - 1), value[Len(value)])
          [] OTHER -> NoneVal

\* the bytes call k passes to _calc_crc8: its own argument, or the checksum
\* domain of the object obj being initialised
CrcArgument(k, obj) ==
    CASE k.fn = "DataPackage.loads" ->
            DataPackage_crc_domain(DataPackage_message_block(obj).val)
      [] k.fn = "MessageBlock.loads" ->
            MessageBlock_crc_domain(MessageBlock_message_block(obj).val)
      [] OTHER -> k.arg.val

\* what call k returns or raises once its _calc_crc8 returned computed
AfterCrc(k, obj, computed) ==
    CASE k.fn = "_calc_crc8" -> IntVal(computed)
      [] k.fn = "check_crc8" ->
            IF computed # k.crc THEN CrcError(computed, k.crc) ELSE NoneVal
      [] OTHER ->
            IF computed # obj.crc THEN CrcError(computed, obj.crc) ELSE obj

InitConc ==
    /\ buf = << >>
    /\ frame = NoneVal
    /\ exc = NoneVal
    /\ ret = NoneVal
    /\ op = "start"
    /\ built = NoneVal
    /\ base = << >>
    /\ mpos = 0
    /\ arg = NoneVal
    /\ ConcIdle

\* caller c calls k: up to the entry of _calc_crc8 (crc = 0), or to the
\* return or the exception when k does not get there
StartCall(c) ==
    \E k \in Calls :
        /\ pc[c] = "idle"
        /\ call' = [call EXCEPT ![c] = k]
        /\ LET r == Immediate(k)
               obj == Unpacked(k)
           IN  IF r.tag # "None"
               THEN /\ pc' = [pc EXCEPT ![c] = "done"]
                    /\ result' = [result EXCEPT ![c] = r]
                    /\ UNCHANGED << inst, _data, acc, idx >>
               ELSE /\ pc' = [pc EXCEPT ![c] = "crc"]
                    /\ inst' = [inst EXCEPT ![c] = obj]
                    /\ _data' = [_data EXCEPT ![c] = CrcArgument(k, obj)]
                    /\ acc' = [acc EXCEPT ![CrcCell(c)] = 0]
                    /\ idx' = [idx EXCEPT ![c] = 0]
                    /\ UNCHANGED result
        /\ UNCHANGED << overlap, callerVars >>

\* one iteration of for byte in _data of the call of caller c
CrcStep(c) ==
    /\ pc[c] = "crc"
    /\ idx[c] < Len(_data[c])
    /\ acc' = [acc EXCEPT ![CrcCell(c)] = Crc8Byte(@, _data[c][idx[c] + 1])]
    /\ idx' = [idx EXCEPT ![c] = @ + 1]
    /\ overlap' = [overlap EXCEPT ![c] =
                      \/ @
                      \/ /\ idx[c] > 0
                         /\ \E d \in Callers \ {c} :
                                /\ pc[d] = "crc"
                                /\ 0 < idx[d]
                                /\ idx[d] < Len(_data[d])]
    /\ UNCHANGED << pc, call, inst, _data, result, callerVars >>

\* return crc, and the rest of the call of caller c; its locals end with it
CrcReturn(c) ==
    /\ pc[c] = "crc"
    /\ idx[c] = Len(_data[c])
    /\ result' = [result EXCEPT ![c] = AfterCrc(call[c], inst[c], acc[CrcCell(c)])]
    /\ pc' = [pc EXCEPT ![c] = "done"]
    /\ inst' = [inst EXCEPT ![c] = NoneVal]
    /\ _data' = [_data EXCEPT ![c] = << >>]
    /\ acc' = [acc EXCEPT ![CrcCell(c)] = 0]
    /\ idx' = [idx EXCEPT ![c] = 0]
    /\ UNCHANGED << call, overlap, callerVars >>

\* caller c drops what its call returned and is free to call again
Release(c) ==
    /\ pc[c] = "done"
    /\ pc' = [pc EXCEPT ![c] = "idle"]
    /\ call' = [call EXCEPT ![c] = NoneVal]
    /\ result' = [result EXCEPT ![c] = NoneVal]
    /\ overlap' = [overlap EXCEPT ![c] = FALSE]
    /\ UNCHANGED << inst, _data, acc, idx, callerVars >>

NextConc ==
    \E c \in Callers :
        \/ StartCall(c)
        \/ CrcStep(c)
        \/ CrcReturn(c)
        \/ Release(c)

SpecConc == InitConc /\ [][NextConc]_vars

(***************************************************************************)
(* The specification of force_to_bytes alone.                              *)
(***************************************************************************)
\* Python values of the types force_to_bytes is called with
FloatVal == [tag |-> "float", repr |-> "1.5"]
BoolVal(b) == [tag |-> "bool", truth |-> b]
StrVal(points) == [tag |-> "str", points |-> points]
ListVal(items) == [tag |-> "list", items |-> items]

\* the ints passed: every byte and two on each side
ForceInts == -2 .. 257

\* the values passed that are no list
ForceScalars ==
    {IntVal(n) : n \in ForceInts}
        \cup {NoneVal, FloatVal, BoolVal(TRUE), BoolVal(FALSE),
              BytesVal(<< 255, 0 >>), StrVal(<< 99 >>), StrVal(<< 233 >>)}

\* the elements of the lists passed, lists among them
ListElems ==
    {IntVal(0), IntVal(255), IntVal(256), IntVal(-1), NoneVal, FloatVal,
     BytesVal(<< 97 >>), ListVal(<< IntVal(1), IntVal(2) >>),
     ListVal(<< IntVal(256) >>)}

ForceInputs ==
    ForceScalars \cup {ListVal(l) : l \in SeqsUpTo(ListElems, MaxListLen)}

InitForce ==
    /\ buf = << >>
    /\ frame = NoneVal
    /\ exc = NoneVal
    /\ ret = NoneVal
    /\ op = "start"
    /\ built = NoneVal
    /\ base = << >>
    /\ mpos = 0
    /\ arg \in ForceInputs
    /\ ConcIdle

\* force_to_bytes(arg)
ForceToBytes ==
    /\ LET r == force_to_bytes(arg)
       IN  /\ ret' = IF IsExc(r) THEN NoneVal ELSE r
           /\ exc' = IF IsExc(r) THEN r ELSE NoneVal
    /\ op' = "force_to_bytes"
    /\ UNCHANGED << buf, frame, built, base, mpos, arg, concVars >>

NextForce == ForceToBytes

SpecForce == InitForce /\ [][NextForce]_vars

(***************************************************************************)
(* A caller that decodes a buffer and prints the frame.                    *)
(***************************************************************************)
\* repr(frame) of a DataPackage
Repr ==
    /\ frame # NoneVal
    /\ frame.tag = "DataPackage"
    /\ LET r == DataPackage_repr(frame)
       IN  /\ ret' = IF IsExc(r) THEN NoneVal ELSE r
           /\ exc' = IF IsExc(r) THEN r ELSE NoneVal
    /\ op' = "repr"
    /\ UNCHANGED << buf, frame, built, base, mpos, arg, concVars >>

NextRepr ==
    \/ LoadsDataPackage
    \/ Repr

SpecRepr == Init /\ [][NextRepr]_vars

(***************************************************************************)
(* A caller that puts zero bytes into a buffer before it passes it on:     *)
(* at the start of the buffer, or at the start of the checksum domain.     *)
(***************************************************************************)
\* the number of zero bytes put into base
Zeros == Len(buf) - Len(base)

\* buf with a zero byte before position pos, for a caller that has put
\* fewer than MaxZeros zero bytes there and has changed nothing else
ZeroAt(pos) ==
    /\ mpos \in {0, pos}
    /\ Len(buf) >= pos - 1
    /\ mpos = pos => Zeros < MaxZeros
    /\ base' = IF mpos = 0 THEN buf ELSE base
    /\ buf' = SubSeq(buf, 1, pos - 1) \o << 0 >> \o SubSeq(buf, pos, Len(buf))
    /\ mpos' = pos
    /\ op' = "zero"
    /\ frame' = NoneVal
    /\ exc' = NoneVal
    /\ ret' = NoneVal
    /\ built' = NoneVal
    /\ UNCHANGED << arg, concVars >>

\* b'\x00' + buf
ZeroPrefix == ZeroAt(1)

\* buf[:2] + b'\x00' + buf[2:]
ZeroPayload == ZeroAt(3)

\* the buffers the caller starts from: those that leave room for a zero byte
ZeroInputs == {b \in Buffers : Len(b) < MaxBufLen}

InitZero ==
    /\ buf \in ZeroInputs
    /\ frame = NoneVal
    /\ exc = NoneVal
    /\ ret = NoneVal
    /\ op = "start"
    /\ built = NoneVal
    /\ base = << >>
    /\ mpos = 0
    /\ arg = NoneVal
    /\ ConcIdle

NextZero ==
    \/ ZeroPrefix
    \/ ZeroPayload
    \/ CalcCrc8
    \/ LoadsDataPackage
    \/ LoadsMessageBlock

SpecZero == InitZero /\ [][NextZero]_vars

(***************************************************************************)
(* The properties.                                                         *)
(***************************************************************************)
\* the last byte of a buffer and the CRC8 of its bytes [2:-1]
LastByte(b) == b[Len(b)]
DomainCrc(b) == _calc_crc8(SubSeq(b, 3, Len(b) - 1))

\* C1: message_block of the frame that DataPackage.loads or
\* MessageBlock.loads returned for a buffer is that buffer, byte for byte.
C1_RoundTrip ==
    (/\ op = "message_block"
     /\ \/ frame = DataPackage_loads(buf)
        \/ frame = MessageBlock_loads(buf))
        => (exc = NoneVal /\ ret = BytesVal(buf))

\* a DataPackage with data was decoded and encoded back to its buffer
C1_Witness ==
    /\ op = "message_block"
    /\ frame = DataPackage_loads(buf)
    /\ Len(frame.data) >= 1
    /\ ret = BytesVal(buf)

\* C2: DataPackage.loads of a buffer of at least 6 bytes returns a frame
\* exactly when the last byte is the CRC8 of the bytes [2:-1]; otherwise it
\* raises the checksum error carrying the computed and the expected value
\* (221 and 222 for F7 01 03 00 A3 DE) and returns no frame.
C2_ChecksumGate ==
    (op = "DataPackage.loads" /\ Len(buf) >= 6)
        => /\ (frame # NoneVal) <=> (LastByte(buf) = DomainCrc(buf))
           /\ (LastByte(buf) # DomainCrc(buf))
                  => (frame = NoneVal /\ exc = CrcError(DomainCrc(buf), LastByte(buf)))
           /\ (buf = << 247, 1, 3, 0, 163, 222 >>)
                  => (exc.computed = 221 /\ exc.expected = 222)

\* F7 01 03 00 A3 DE was rejected, reporting 221 and 222
C2_Witness ==
    /\ op = "DataPackage.loads"
    /\ buf = << 247, 1, 3, 0, 163, 222 >>
    /\ frame = NoneVal
    /\ exc = CrcError(221, 222)

\* C3: from a buffer DataPackage.loads accepted, the buffer with head or
\* slave_addr replaced is accepted, and the buffer with one byte of data
\* replaced by another value is rejected with the checksum error.
C3_DomainExact ==
    (op = "DataPackage.loads" /\ mpos # 0 /\ ~IsExc(DataPackage_loads(base)))
        => /\ (mpos \in {1, 2}) => (frame # NoneVal /\ exc = NoneVal)
           /\ (mpos >= 6 /\ mpos < Len(buf))
                  => /\ frame = NoneVal
                     /\ exc = CrcError(DomainCrc(buf), LastByte(buf))

\* a byte of data of an accepted buffer was replaced and loads rejected it
C3_Witness ==
    /\ op = "DataPackage.loads"
    /\ ~IsExc(DataPackage_loads(base))
    /\ mpos >= 6
    /\ mpos < Len(buf)
    /\ buf[mpos] # base[mpos]
    /\ IsExc(exc)
    /\ exc.msg = "Invalid CRC8 checksum"

C5_LengthInvariant ==
    (op \in {"DataPackage.loads", "DataPackage"} /\ frame # NoneVal)
        => frame.length = 3 + Len(frame.data)

\* C6: a buffer of at least 6 bytes with a correct crc is accepted whatever
\* its status and function_code bytes are, members of ResponseState and
\* Command or not, and the frame holds the two bytes as they are.
C6_UnknownCodes ==
    (op = "DataPackage.loads" /\ Len(buf) >= 6 /\ LastByte(buf) = DomainCrc(buf))
        => /\ frame # NoneVal
           /\ frame.status = buf[4]
           /\ frame.function_code = buf[5]

\* a frame was returned whose function_code is no Command and whose status
\* is no ResponseState
C6_Witness ==
    /\ op = "DataPackage.loads"
    /\ frame # NoneVal
    /\ frame.function_code \notin Command
    /\ frame.status \notin ResponseState
    /\ frame.function_code = buf[5]

FrameCrcOk(self) ==
    /\ ~IsExc(message_block(self))
    /\ self.crc = _calc_crc8(Slice2m1(message_block(self).val))

\* C9: whatever is done with a frame after its construction, its
\* message_block is what it was then and its crc is the CRC8 of its
\* checksum domain.
C9_Immutable ==
    (frame # NoneVal) => (message_block(frame) = built /\ FrameCrcOk(frame))

\* bit k (1 is the first) of the bytes of data, each byte most significant
\* bit first
BitOf(data, k) == (data[((k - 1) \div 8) + 1] \div (2 ^ (7 - ((k - 1) % 8)))) % 2

\* the reference CRC-8: the remainder of the division, over GF(2), of the
\* message polynomial times x^8 by x^8 + x^2 + x + 1 (0x107), the register
\* starting at 0, bits taken most significant first, nothing reflected and
\* nothing XORed to the result
RefCrc8(data) ==
    LET n == 8 * Len(data)
        rem[k \in 0 .. n + 8] ==
            IF k = 0 THEN 0
            ELSE LET sh == 2 * rem[k - 1] + (IF k <= n THEN BitOf(data, k) ELSE 0)
                 IN  IF sh >= 256 THEN BitXor(sh, 263) ELSE sh
    IN  rem[n + 8]

\* C7: _calc_crc8 returns the reference CRC-8 (polynomial 0x07, initial
\* value 0, most significant bit first, no reflection, no final XOR) of its
\* input: a value in 0..255, 0 for the empty input, 0xDD for 03 00 A3.
C7_Crc8Reference ==
    (op = "_calc_crc8")
        => /\ ret = IntVal(RefCrc8(buf))
           /\ ret.val \in Byte
           /\ (buf = << >>) => (ret.val = 0)
           /\ (buf = << 3, 0, 163 >>) => (ret.val = 221)

\* _calc_crc8 returned 0xDD for 03 00 A3
C7_Witness ==
    /\ op = "_calc_crc8"
    /\ buf = << 3, 0, 163 >>
    /\ ret = IntVal(221)

\* the outcome of call k made alone, as the very first call
Outcome(k) ==
    CASE k.fn = "DataPackage.loads" -> DataPackage_loads(k.arg.val)
      [] k.fn = "MessageBlock.loads" -> MessageBlock_loads(k.arg.val)
      [] k.fn = "_calc_crc8" -> IntVal(_calc_crc8(k.arg.val))
      [] k.fn = "check_crc8" -> check_crc8(k.arg.val, k.crc)
      [] k.fn = "message_block" -> message_block(k.arg)

\* C10: with any number of callers whose calls interleave, and after any
\* earlier calls, failed ones included, every finished call has returned or
\* raised what the same call with the same input gives alone as the first
\* call; and while a call runs, the object it initialises, the bytes it
\* checksums and its accumulator are those its own input determines: no
\* other call has altered them.
C10_Stateless ==
    \A c \in Callers :
        /\ pc[c] = "done" => result[c] = Outcome(call[c])
        /\ pc[c] = "crc" =>
            /\ inst[c] = Unpacked(call[c])
            /\ _data[c] = CrcArgument(call[c], Unpacked(call[c]))
            /\ acc[CrcCell(c)] = _calc_crc8(SubSeq(_data[c], 1, idx[c]))

\* two calls whose loops interleaved have finished: one returned a frame,
\* the other raised
C10_Witness ==
    \E c \in Callers, d \in Callers :
        /\ c # d
        /\ pc[c] = "done" /\ overlap[c] /\ result[c].tag = "DataPackage"
        /\ pc[d] = "done" /\ overlap[d] /\ IsExc(result[d])

\* the value of the marker, the default of the field head
HeadMarker == 247

\* C11: every frame that DataPackage.loads or MessageBlock.loads returns has
\* head = 0xF7, and the buffer it was decoded from starts with 0xF7.
C11_HeadMarker ==
    (op \in {"DataPackage.loads", "MessageBlock.loads"} /\ frame # NoneVal)
        => (frame.head = HeadMarker /\ buf[1] = HeadMarker)

\* a value that is no supported shape: a float, None, an int that is no
\* byte, or a list with such a value in it
RECURSIVE Unsupported(_)
Unsupported(v) ==
    \/ v.tag \in {"float", "None"}
    \/ v.tag = "int" /\ v.val \notin Byte
    \/ v.tag = "list" /\ \E i \in 1 .. Len(v.items) : Unsupported(v.items[i])

\* C12: force_to_bytes of a value that is no supported shape returns no
\* bytes and raises the ValueError of the unregistered types, the same for
\* all of them; force_to_bytes of an int 0..255 returns the one byte of that
\* value.
C12_ErrorKind ==
    (op = "force_to_bytes") =>
        /\ Unsupported(arg) =>
            /\ ret = NoneVal
            /\ IsExc(exc)
            /\ exc.type = "ValueError"
            /\ exc.msg = "Unknown type"
        /\ (arg.tag = "int" /\ arg.val \in Byte) => ret = BytesVal(<< arg.val >>)

\* C13: repr of a DataPackage shows function_code as the name of the member
\* of Command with that value, as the number when there is none; status as
\* the name of the member of ResponseState with that value, as the number
\* when there is none; and data as the hexadecimal digits of its bytes in
\* order.
C13_Rendering ==
    (op = "repr" /\ ret # NoneVal) =>
        /\ ret.fn = IF frame.function_code \in Command
                    THEN NameText(CommandName(frame.function_code))
                    ELSE NumberText(frame.function_code)
        /\ ret.st = IF frame.status \in ResponseState
                    THEN NameText(ResponseStateName(frame.status))
                    ELSE NumberText(frame.status)
        /\ ret.msg = Hex(frame.data)

====
